---- MODULE Spec2Model ----
(***************************************************************************)
(* State-machine model of selfdrive/manager/manager.py: the supervisor's   *)
(* initialization (manager_init), preparation (manager_prepare), control   *)
(* loop (manager_thread), teardown (manager_cleanup), system-action        *)
(* dispatch (main) and the outermost run wrapper (__main__).               *)
(*                                                                         *)
(* Strings of the program are TLA+ strings; Python's None is NONE.  The    *)
(* BLOCK environment variable is a sequence of tokens, each either the     *)
(* separator "," or a maximal run of other characters (a name).            *)
(***************************************************************************)
EXTENDS Integers, Sequences, FiniteSets, TLC

\* ------------------------------------------------------------------ bounds
\* Number of entries of the process registry that the model keeps.
NumProcs == 3
\* Number of control-loop iterations (sm.update() returns) the model follows.
MaxIter == 2

\* --------------------------------------------------------------- constants
NONE == "<None>"
UNREGISTERED_DONGLE_ID == "UnregisteredDevice"

\* managed_processes, in registry order (process_config.py); the first
\* NumProcs entries are kept.
AllProcs == <<"ui", "pandad", "uploader", "controlsd", "manage_athenad">>

managed_processes == SubSeq(AllProcs, 1, NumProcs)

ProcNames == {managed_processes[n] : n \in 1..Len(managed_processes)}

\* ManagedProcess.should_run(started, params, CP) of the orchestration policy.
OnlyOnroad == {"controlsd"}

should_run(p, st) == IF p \in OnlyOnroad THEN st ELSE TRUE

\* The static table of default configuration values of manager_init().
default_params == <<
    <<"AccMadsCombo", "1">>,
    <<"AutoLaneChangeTimer", "0">>,
    <<"BelowSpeedPause", "0">>,
    <<"BrakeLights", "0">>,
    <<"BrightnessControl", "0">>,
    <<"CustomTorqueLateral", "0">>,
    <<"CameraControl", "2">>,
    <<"CameraControlToggle", "0">>,
    <<"CameraOffset", "0">>,
    <<"CarModel", "">>,
    <<"CarModelText", "">>,
    <<"ChevronInfo", "1">>,
    <<"CustomBootScreen", "0">>,
    <<"CustomOffsets", "0">>,
    <<"CompletedTrainingVersion", "0">>,
    <<"DevUI", "1">>,
    <<"DevUIRow", "1">>,
    <<"DisableOnroadUploads", "0">>,
    <<"DisengageLateralOnBrake", "1">>,
    <<"DisengageOnAccelerator", "0">>,
    <<"DynamicLaneProfile", "2">>,
    <<"DynamicLaneProfileToggle", "1">>,
    <<"EnableMads", "1">>,
    <<"EndToEndLongToggle", "1">>,
    <<"EnhancedScc", "0">>,
    <<"GapAdjustCruise", "1">>,
    <<"GapAdjustCruiseMode", "0">>,
    <<"GapAdjustCruiseTr", "4">>,
    <<"GpxDeleteAfterUpload", "1">>,
    <<"GpxDeleteIfUploaded", "1">>,
    <<"GsmMetered", "1">>,
    <<"HandsOnWheelMonitoring", "0">>,
    <<"HasAcceptedTerms", "0">>,
    <<"LanguageSetting", "main_en">>,
    <<"LastSpeedLimitSignTap", "0">>,
    <<"MadsIconToggle", "1">>,
    <<"MaxTimeOffroad", "9">>,
    <<"OnroadScreenOff", "0">>,
    <<"OnroadScreenOffBrightness", "50">>,
    <<"OpenpilotEnabledToggle", "1">>,
    <<"PathOffset", "0">>,
    <<"ReverseAccChange", "0">>,
    <<"ShowDebugUI", "1">>,
    <<"SpeedLimitControl", "1">>,
    <<"SpeedLimitPercOffset", "1">>,
    <<"SpeedLimitStyle", "0">>,
    <<"SpeedLimitValueOffset", "0">>,
    <<"StandStillTimer", "0">>,
    <<"StockLongToyota", "0">>,
    <<"TorqueDeadzoneDeg", "0">>,
    <<"TorqueFriction", "1">>,
    <<"TorqueMaxLatAccel", "250">>,
    <<"TurnSpeedControl", "0">>,
    <<"TurnVisionControl", "0">>,
    <<"VisionCurveLaneless", "0">>,
    <<"VwAccType", "0">> >>

\* datetime.datetime.utcnow().isoformat().encode('utf8')
NowStamp == "<utcnow>"

\* The table as extended on a device (not PC) with LastUpdateTime.
DefaultTable(isPC) ==
    IF isPC THEN default_params
    ELSE Append(default_params, <<"LastUpdateTime", NowStamp>>)

TableKeys == {default_params[n][1] : n \in 1..Len(default_params)}

\* The keys manager_init() writes unconditionally (version identity).
version_params == <<
    <<"Version", "<get_version>">>,
    <<"TermsVersion", "<terms_version>">>,
    <<"TrainingVersion", "<training_version>">>,
    <<"GitCommit", "<get_commit>">>,
    <<"GitBranch", "<get_short_branch>">>,
    <<"GitRemote", "<get_origin>">>,
    <<"IsTestedBranch", "1">> >>

VersionKeys == {version_params[n][1] : n \in 1..Len(version_params)}

\* The flags of the shutdown check, in the order the loop reads them.
ShutdownParams == <<"DoUninstall", "DoShutdown", "DoReboot">>

\* Variant of DispatchParams: the dispatch reads the flags in the loop's order.
DispatchParams_LoopOrder == ShutdownParams

\* The flags of the dispatch after teardown, in the order main() reads them.
DispatchParams == <<"DoUninstall", "DoReboot", "DoShutdown">>

FlagKeys == {"DoUninstall", "DoShutdown", "DoReboot"}

ParamKeys ==
    TableKeys \cup VersionKeys \cup FlagKeys \cup
    {"LastUpdateTime", "RecordFrontLock", "RecordFront", "Passive",
     "HardwareSerial", "DongleId", "LastManagerExitReason"}

\* ------------------------------------------------------- the Params store
\* Params.get(k): the stored value, NONE when the key is unset.
get(ps, k) == ps[k]

\* Params.get_bool(k): true exactly when the stored value is "1".
get_bool(ps, k) == ps[k] = "1"

\* Params.put(k, v)
put(ps, k, v) == [ps EXCEPT ![k] = v]

\* Params.put_bool(k, b)
put_bool(ps, k, b) == [ps EXCEPT ![k] = IF b THEN "1" ELSE "0"]

\* Params.clear_all(tag): every key carrying the tag becomes unset.
clear_all(ps, tagged) == [k \in DOMAIN ps |-> IF k \in tagged THEN NONE ELSE ps[k]]

\* Positions of key k in a table of <<key, value>> pairs.
Positions(tbl, k) == {n \in 1..Len(tbl) : tbl[n][1] = k}

Min(S) == CHOOSE n \in S : \A m \in S : n <= m

Max(S) == CHOOSE n \in S : \A m \in S : n >= m

\* "params.put(k, v)" for every pair of a table, in order: the last entry
\* of a key is the one that stays.
PutAll(ps, tbl) ==
    [k \in DOMAIN ps |->
        IF Positions(tbl, k) # {} THEN tbl[Max(Positions(tbl, k))][2] ELSE ps[k]]

\* Variant of SetUnsetParams without the "is None" test: every key of the
\* table is written.
SetUnsetParams_Overwrite(ps, tbl) == PutAll(ps, tbl)

\* "for k, v in default_params: if params.get(k) is None: params.put(k, v)":
\* an unset key takes the value of its first entry, after which it is set.
SetUnsetParams(ps, tbl) ==
    [k \in DOMAIN ps |->
        IF get(ps, k) = NONE /\ Positions(tbl, k) # {}
           THEN tbl[Min(Positions(tbl, k))][2]
           ELSE ps[k]]

\* bool(int(s)) for the decimal strings the model uses.
BoolOfInt(s) == s # "0"


\* ------------------------------------------------------------ environment
\* The tokens of os.getenv("BLOCK", ""): split(",") and the filter len(x) > 0.
\* A field is the run of tokens between two separators; the values of BLOCK
\* the model draws have at most one name token per field.
RECURSIVE Split(_, _)
Split(toks, cur) ==
    IF toks = <<>> THEN <<cur>>
    ELSE IF Head(toks) = "," THEN <<cur>> \o Split(Tail(toks), <<>>)
    ELSE Split(Tail(toks), Append(cur, Head(toks)))

NonEmptyFields(fields) == SelectSeq(fields, LAMBDA f : Len(f) > 0)

BlockNames(blk) ==
    LET fs == NonEmptyFields(Split(blk, <<>>))
    IN  [n \in 1..Len(fs) |-> fs[n][1]]

\* The exclusion list of manager_thread(): a Python list, built in this order.
ComputeIgnore(ps, noboard, blk) ==
    (IF get(ps, "DongleId") \in {NONE, UNREGISTERED_DONGLE_ID}
        THEN <<"manage_athenad", "uploader">> ELSE <<>>)
    \o (IF noboard # NONE THEN <<"pandad">> ELSE <<>>)
    \o BlockNames(blk)

\* Variant of NotRunArg: the list is built again for every call.
NotRunArg_Recomputed(ig, ps, noboard, blk) == ComputeIgnore(ps, noboard, blk)

\* The not_run argument of the ensure_running call inside the loop: the
\* local list built before the loop, whatever the store and the
\* environment hold by now.
NotRunArg(ig, ps, noboard, blk) == ig

InList(x, lst) == \E n \in 1..Len(lst) : lst[n] = x

\* -------------------------------------------------------- process handles
Alive(st) == st \in {"alive", "stopping"}

\* ManagedProcess.start(): a process that is not running is launched.
start(pr, p) == [pr EXCEPT ![p] = IF Alive(@) THEN @ ELSE "alive"]

\* ManagedProcess.stop(block): the signal is sent to a live process; a
\* blocking stop returns once the process has terminated.
stop(pr, p, block) ==
    [pr EXCEPT ![p] = IF Alive(@) THEN (IF block THEN "dead" ELSE "stopping")
                      ELSE @]

\* ensure_running(procs, started, not_run): each process that is not
\* excluded and should run is started, every other one gets a
\* non-blocking stop.
RECURSIVE ensure_running(_, _, _, _)
ensure_running(pr, procs, st, not_run) ==
    IF procs = <<>> THEN pr
    ELSE LET p == Head(procs)
         IN  ensure_running(
                 IF ~InList(p, not_run) /\ should_run(p, st)
                    THEN start(pr, p) ELSE stop(pr, p, FALSE),
                 Tail(procs), st, not_run)

\* ManagedProcess.get_process_state_msg()
get_process_state_msg(pr, p) == [name |-> p, running |-> Alive(pr[p])]

\* Variant of PublishedProcs with the "if p.proc" filter of the printed line.
PublishedProcs_Started(pr) == SelectSeq(managed_processes, LAMBDA p : pr[p] # "none")

\* The processes whose state entries make up one managerState message.
PublishedProcs(pr) == managed_processes

\* "msg.managerState.processes = [p.get_process_state_msg() for p in ...]"
ManagerStateMsg(pr) ==
    LET ps == PublishedProcs(pr)
    IN  [n \in 1..Len(ps) |-> get_process_state_msg(pr, ps[n])]

\* Variant of CleanupBlocking that starts at the second process.
CleanupBlocking_SkipFirst == Tail(managed_processes)

\* The processes manager_cleanup() stops in its second, blocking pass.
CleanupBlocking == managed_processes

\* Variant of CleanupSignalled whose first pass leaves out the first process.
CleanupSignalled_SkipFirst == Tail(managed_processes)

\* The processes manager_cleanup() signals in its first, non-blocking pass.
CleanupSignalled == managed_processes

\* --------------------------------------------------------- control flow
\* Variant of PassiveMissing: the test is absent.
PassiveMissing_Never(ps) == FALSE

\* "if params.get('Passive') is None: raise"
PassiveMissing(ps) == get(ps, "Passive") = NONE

\* Variant of RegistrationFailed: the test is absent.
RegistrationFailed_Never(r) == FALSE

\* "if reg_res: ... else: raise": None and "" are false.
RegistrationFailed(r) == r \in {NONE, ""}

\* Variant of CaughtByMain: the clause names SystemExit.
CaughtByMain_SystemExit(kind) == kind = "SystemExit"

\* "except Exception" of main(): what it catches.
CaughtByMain(kind) == kind = "Exception"

\* manager_thread(): the loop without 'if shutdown: break'.
LoopBreaks_Never(sd) == FALSE

\* "if shutdown: break"
LoopBreaks(sd) == sd

\* The HARDWARE call of main() for a flag found true.
ActionOf(flag) ==
    CASE flag = "DoUninstall" -> "uninstall"
      [] flag = "DoReboot" -> "reboot"
      [] flag = "DoShutdown" -> "shutdown"

\* Variant of DispatchNext with "if" in place of "elif".
DispatchNext_NoElif(n, v) == n + 1

\* The if / elif / elif chain of main(): the position after reading the
\* n-th flag of DispatchParams with value v; past the chain is Len + 1.
DispatchNext(n, v) == IF v THEN Len(DispatchParams) + 1 ELSE n + 1


\* main(): prepare_only = os.getenv("PREPAREONLY") is not None, never true.
PrepareOnly_Never(env) == FALSE

\* main(): prepare_only = os.getenv("PREPAREONLY") is not None
PrepareOnly(env) == env.PREPAREONLY # NONE

\* manager_init(): only 'except FileExistsError' around os.mkdir.
HandledInPlace_OnlyExists(outcome) == outcome = "FileExistsError"

\* manager_init(): the except clauses around os.mkdir("/dev/shm").
HandledInPlace(outcome) == outcome \in {"FileExistsError", "PermissionError"}

\* manager_thread(): a first ensure_running call with started = True.
InitialStarted_True == TRUE

\* manager_thread(): the started argument of the ensure_running call made
\* before the loop.
InitialStarted == FALSE

\* __main__: the stop of the ui process without its try / except.
SwallowedByOuter_Nothing(kind) == FALSE

\* __main__: 'except Exception: pass' around managed_processes['ui'].stop().
SwallowedByOuter(kind) == kind = "Exception"

\* main(): the status the SIGTERM handler passes to sys.exit.
HandlerExitStatus == 1

\* ------------------------------------------------------------------ state
VARIABLES
    pc,           \* position of the supervisor's control thread
    params,       \* the persisted configuration store
    params0,      \* the store as it was before manager_init() (history)
    tagged,       \* the keys tagged CLEAR_ON_MANAGER_START
    isPC,         \* system.hardware.PC
    environ,      \* os.environ: PASSIVE, NOBOARD, PREPAREONLY, DONGLE_ID
    BLOCK,        \* os.environ["BLOCK"] as tokens, <<>> when unset or empty
    prepare_only, \* local of main()
    proc,         \* per registered process: "none", "alive", "stopping", "dead"
    prepared,     \* the processes whose prepare() has returned
    idx,          \* position of the for loop the thread is in
    ignore,       \* local list of manager_thread()
    snap,         \* what ignore was computed from (history)
    started,      \* sm['deviceState'].started as last read
    iter,         \* number of loop iterations begun
    shutdown,     \* local of the loop
    seen,         \* flags the shutdown check of this iteration read true, in order
    atBreak,      \* the flags set in the store when the loop broke (history)
    handler,      \* the SIGTERM handler of main() is installed
    sigterm,      \* a SIGTERM has been delivered to the handler (history)
    pending,      \* exception in flight through the finally clause of main()
    loopExc,      \* an Exception was raised inside manager_thread() (history)
    reported,     \* sentry.capture_exception() calls of main()
    stopLog,      \* the stop calls of manager_cleanup(): <<name, block>>
    cleanups,     \* number of returns of manager_cleanup()
    dread,        \* the flag values the dispatch of main() has read, in order
    actions,      \* the HARDWARE calls dispatched, in order
    calls,        \* number of ensure_running calls
    lastCall,     \* arguments of the latest ensure_running call
    pubs,         \* number of managerState messages sent
    lastMsg,      \* the latest managerState message
    reg_res,      \* local of manager_init(): what register() returned
    error,        \* the exception that left main(), <<>> when there is none
    uiStops,      \* stop calls on the ui process made by __main__
    exitStatus,   \* -1 while the supervisor runs, then its exit status
    faults,       \* the best-effort steps of manager_init() that fail in this run
    recovered,    \* the failures manager_init() has met and passed (history)
    raised,       \* the exception __main__ raised again, <<>> when there is none
    loopSig,      \* a SIGTERM arrived while in manager_thread() (history)
    cutShort,     \* a SIGTERM arrived while in manager_cleanup() (history)
    invoked       \* the processes whose prepare() has been called (history)

vars == <<pc, params, params0, tagged, isPC, environ, BLOCK, prepare_only, proc,
          prepared, idx, ignore, snap, started, iter, shutdown, seen, atBreak,
          handler, sigterm, pending, loopExc, reported, stopLog, cleanups,
          dread, actions, calls, lastCall, pubs, lastMsg, reg_res, error,
          uiStops, exitStatus, faults, recovered, raised, loopSig, cutShort,
          invoked>>

\* The values of lastCall and snap before the first call and the computation.
NoCall == [started |-> FALSE, not_run |-> <<>>]
NoSnap == [DongleId |-> NONE, NOBOARD |-> NONE, BLOCK |-> <<>>]

EmptyStore == [k \in ParamKeys |-> NONE]

\* The state after the module is imported and before main() runs, for a
\* store ps, a tag set tg, the PC constant, an environment and the set flt
\* of best-effort steps that fail.
InitWith(ps, tg, onPC, passive, noboard, blk, prep, flt) ==
    /\ pc = "start"
    /\ params = ps
    /\ params0 = ps
    /\ tagged = tg
    /\ isPC = onPC
    /\ environ = [PASSIVE |-> passive, NOBOARD |-> noboard,
                  PREPAREONLY |-> prep, DONGLE_ID |-> NONE]
    /\ BLOCK = blk
    /\ prepare_only = FALSE
    /\ proc = [p \in ProcNames |-> "none"]
    /\ prepared = {}
    /\ idx = 0
    /\ ignore = <<>>
    /\ snap = NoSnap
    /\ started = FALSE
    /\ iter = 0
    /\ shutdown = FALSE
    /\ seen = <<>>
    /\ atBreak = {}
    /\ handler = FALSE
    /\ sigterm = FALSE
    /\ pending = "none"
    /\ loopExc = FALSE
    /\ reported = 0
    /\ stopLog = <<>>
    /\ cleanups = 0
    /\ dread = <<>>
    /\ actions = <<>>
    /\ calls = 0
    /\ lastCall = NoCall
    /\ pubs = 0
    /\ lastMsg = <<>>
    /\ reg_res = NONE
    /\ error = <<>>
    /\ uiStops = 0
    /\ exitStatus = -1
    /\ faults = flt
    /\ recovered = {}
    /\ raised = <<>>
    /\ loopSig = FALSE
    /\ cutShort = FALSE
    /\ invoked = {}

\* Values of BLOCK the model draws.
BlockValues == { <<>>, <<",", "uploader", ",", ",", "ui">> }

\* A full run of the supervisor: the store holds a serial number, possibly a
\* persisted Passive and a dongle id; nothing is tagged, BLOCK and NOBOARD
\* are unset.
Init ==
    \E passive \in {NONE, "0"}, dongle \in {NONE, "dongle1"},
       prep \in {NONE, "1"} :
        InitWith([EmptyStore EXCEPT !["Passive"] = passive,
                                    !["DongleId"] = dongle,
                                    !["HardwareSerial"] = "serial1"],
                 {}, FALSE, NONE, NONE, <<>>, prep, {})

\* A run in which the inputs of the exclusion list vary and change.
InitEnv ==
    \E dongle \in {NONE, UNREGISTERED_DONGLE_ID, "dongle1"},
       noboard \in {NONE, "1"}, blk \in BlockValues :
        InitWith([EmptyStore EXCEPT !["Passive"] = "0",
                                    !["DongleId"] = dongle,
                                    !["HardwareSerial"] = "serial1"],
                 {}, FALSE, NONE, noboard, blk, NONE, {})

\* The tag sets the model draws for CLEAR_ON_MANAGER_START.
TagChoices == { {}, {"AccMadsCombo", "DoReboot"} }

\* A run over the stores and environments manager_init() can meet.
InitStartup ==
    \E passive \in {NONE, "0", "1"}, envPassive \in {NONE, "0", "1"},
       acc \in {NONE, "0"}, ver \in {NONE, "old"}, lock \in {NONE, "1"},
       serial \in {NONE, "serial1"}, tg \in TagChoices,
       pclut \in {<<TRUE, NONE>>, <<FALSE, NONE>>, <<FALSE, "t0">>},
       prep \in {NONE, "1"} :
        InitWith([EmptyStore EXCEPT !["Passive"] = passive,
                                    !["AccMadsCombo"] = acc,
                                    !["Version"] = ver,
                                    !["RecordFrontLock"] = lock,
                                    !["RecordFront"] = IF lock = NONE THEN NONE ELSE "0",
                                    !["DoReboot"] = lock,
                                    !["LastUpdateTime"] = pclut[2],
                                    !["HardwareSerial"] = serial],
                 tg, pclut[1], envPassive, NONE, <<>>, prep, {})

\* The best-effort steps of manager_init(): the clock update, the boot log
\* and the creation of /dev/shm.
BestEffortSteps == {"set_time", "bootlog", "shm"}

\* A run in which any of the best-effort steps of manager_init() fail.
InitFaults ==
    \E flt \in SUBSET BestEffortSteps, passive \in {NONE, "0"},
       prep \in {NONE, "1"} :
        InitWith([EmptyStore EXCEPT !["Passive"] = passive,
                                    !["HardwareSerial"] = "serial1"],
                 {}, FALSE, NONE, NONE, <<>>, prep, flt)

\* The positions inside manager_thread().
ThreadPcs == {"mt_ignore", "mt_first", "loop_wait", "loop_ensure",
              "loop_publish", "loop_check"}

\* The positions after the exclusion list is built.
LoopPcs == ThreadPcs \ {"mt_ignore"}

\* ---------------------------------------------------------------- actions
\* main(): prepare_only = os.getenv('PREPAREONLY') is not None
MainStart ==
    /\ pc = "start"
    /\ prepare_only' = PrepareOnly(environ)
    /\ pc' = "init_time"
    /\ UNCHANGED <<params, params0, tagged, isPC, environ, BLOCK, proc, prepared,
                   idx, ignore, snap, started, iter, shutdown, seen, atBreak,
                   handler, sigterm, pending, loopExc, reported, stopLog,
                   cleanups, dread, actions, calls, lastCall, pubs, lastMsg,
                   reg_res, error, uiStops, exitStatus, faults, recovered,
                   raised, loopSig, cutShort, invoked>>

\* manager_init(): set_time(cloudlog); a failed clock update is logged by
\* set_time itself, which returns.
InitSetTime ==
    /\ pc = "init_time"
    /\ recovered' = IF "set_time" \in faults
                       THEN recovered \cup {"set_time"} ELSE recovered
    /\ pc' = "init_bootlog"
    /\ UNCHANGED <<params, params0, tagged, isPC, environ, BLOCK, prepare_only,
                   proc, prepared, idx, ignore, snap, started, iter, shutdown,
                   seen, atBreak, handler, sigterm, pending, loopExc, reported,
                   stopLog, cleanups, dread, actions, calls, lastCall, pubs,
                   lastMsg, reg_res, error, uiStops, exitStatus, faults, raised,
                   loopSig, cutShort, invoked>>

\* manager_init(): subprocess.call('./bootlog'); a bootlog that could not
\* write exits non-zero, and the exit code is not read.
InitBootlog ==
    /\ pc = "init_bootlog"
    /\ recovered' = IF "bootlog" \in faults
                       THEN recovered \cup {"bootlog"} ELSE recovered
    /\ pc' = "init_clear"
    /\ UNCHANGED <<params, params0, tagged, isPC, environ, BLOCK, prepare_only,
                   proc, prepared, idx, ignore, snap, started, iter, shutdown,
                   seen, atBreak, handler, sigterm, pending, loopExc, reported,
                   stopLog, cleanups, dread, actions, calls, lastCall, pubs,
                   lastMsg, reg_res, error, uiStops, exitStatus, faults, raised,
                   loopSig, cutShort, invoked>>

\* manager_init(): params.clear_all(ParamKeyType.CLEAR_ON_MANAGER_START)
InitClearAll ==
    /\ pc = "init_clear"
    /\ params' = clear_all(params, tagged)
    /\ pc' = "init_defaults"
    /\ UNCHANGED <<params0, tagged, isPC, environ, BLOCK, prepare_only, proc,
                   prepared, idx, ignore, snap, started, iter, shutdown, seen,
                   atBreak, handler, sigterm, pending, loopExc, reported,
                   stopLog, cleanups, dread, actions, calls, lastCall, pubs,
                   lastMsg, reg_res, error, uiStops, exitStatus, faults,
                   recovered, raised, loopSig, cutShort, invoked>>

\* manager_init(): RecordFrontLock forces RecordFront, then the unset keys
\* of the default table are written.
InitDefaults ==
    /\ pc = "init_defaults"
    /\ params' = SetUnsetParams(
                     IF get_bool(params, "RecordFrontLock")
                        THEN put_bool(params, "RecordFront", TRUE) ELSE params,
                     DefaultTable(isPC))
    /\ pc' = "init_passive"
    /\ UNCHANGED <<params0, tagged, isPC, environ, BLOCK, prepare_only, proc,
                   prepared, idx, ignore, snap, started, iter, shutdown, seen,
                   atBreak, handler, sigterm, pending, loopExc, reported,
                   stopLog, cleanups, dread, actions, calls, lastCall, pubs,
                   lastMsg, reg_res, error, uiStops, exitStatus, faults,
                   recovered, raised, loopSig, cutShort, invoked>>

\* manager_init(): the PASSIVE override is persisted; an unset Passive raises.
InitPassive ==
    /\ pc = "init_passive"
    /\ LET ps == IF environ.PASSIVE # NONE
                    THEN put_bool(params, "Passive", BoolOfInt(environ.PASSIVE))
                    ELSE params
       IN  /\ params' = ps
           /\ IF PassiveMissing(ps)
                 THEN /\ pc' = "outer_except"
                      /\ error' = <<"Passive must be set to continue">>
                 ELSE /\ pc' = "init_shm"
                      /\ error' = error
    /\ UNCHANGED <<params0, tagged, isPC, environ, BLOCK, prepare_only, proc,
                   prepared, idx, ignore, snap, started, iter, shutdown, seen,
                   atBreak, handler, sigterm, pending, loopExc, reported,
                   stopLog, cleanups, dread, actions, calls, lastCall, pubs,
                   lastMsg, reg_res, uiStops, exitStatus, faults, recovered,
                   raised, loopSig, cutShort, invoked>>

\* manager_init(): os.mkdir('/dev/shm'); FileExistsError and PermissionError
\* are handled in place.
InitShm ==
    /\ pc = "init_shm"
    /\ \E outcome \in IF "shm" \in faults THEN {"PermissionError"}
                                          ELSE {"created", "FileExistsError"} :
           IF outcome = "created" \/ HandledInPlace(outcome)
              THEN /\ pc' = "init_version"
                   /\ error' = error
                   /\ recovered' = IF outcome = "PermissionError"
                                      THEN recovered \cup {"shm"} ELSE recovered
              ELSE /\ pc' = "outer_except"
                   /\ error' = <<outcome>>
                   /\ recovered' = recovered
    /\ UNCHANGED <<params, params0, tagged, isPC, environ, BLOCK, prepare_only,
                   proc, prepared, idx, ignore, snap, started, iter, shutdown,
                   seen, atBreak, handler, sigterm, pending, loopExc, reported,
                   stopLog, cleanups, dread, actions, calls, lastCall, pubs,
                   lastMsg, reg_res, uiStops, exitStatus, faults, raised,
                   loopSig, cutShort, invoked>>

\* manager_init(): the version keys are written unconditionally.
InitVersion ==
    /\ pc = "init_version"
    /\ params' = PutAll(params, version_params)
    /\ pc' = "init_register"
    /\ UNCHANGED <<params0, tagged, isPC, environ, BLOCK, prepare_only, proc,
                   prepared, idx, ignore, snap, started, iter, shutdown, seen,
                   atBreak, handler, sigterm, pending, loopExc, reported,
                   stopLog, cleanups, dread, actions, calls, lastCall, pubs,
                   lastMsg, reg_res, error, uiStops, exitStatus, faults,
                   recovered, raised, loopSig, cutShort, invoked>>

\* manager_init(): register(); no identifier raises with the serial number,
\* an identifier is exported as DONGLE_ID.
InitRegister ==
    /\ pc = "init_register"
    /\ \E r \in {NONE, "dongle1"} :
           /\ reg_res' = r
           /\ IF RegistrationFailed(r)
                 THEN /\ pc' = "outer_except"
                      /\ error' = <<"Registration failed for device",
                                    get(params, "HardwareSerial")>>
                      /\ environ' = environ
                 ELSE /\ pc' = "init_logging"
                      /\ error' = error
                      /\ environ' = [environ EXCEPT !.DONGLE_ID = r]
    /\ UNCHANGED <<params, params0, tagged, isPC, BLOCK, prepare_only, proc,
                   prepared, idx, ignore, snap, started, iter, shutdown, seen,
                   atBreak, handler, sigterm, pending, loopExc, reported,
                   stopLog, cleanups, dread, actions, calls, lastCall, pubs,
                   lastMsg, uiStops, exitStatus, faults, recovered, raised,
                   loopSig, cutShort, invoked>>

\* manager_init(): CLEAN, sentry.init, cloudlog.bind_global, error.txt.
InitLogging ==
    /\ pc = "init_logging"
    /\ pc' = "ui_start"
    /\ UNCHANGED <<params, params0, tagged, isPC, environ, BLOCK, prepare_only,
                   proc, prepared, idx, ignore, snap, started, iter, shutdown,
                   seen, atBreak, handler, sigterm, pending, loopExc, reported,
                   stopLog, cleanups, dread, actions, calls, lastCall, pubs,
                   lastMsg, reg_res, error, uiStops, exitStatus, faults,
                   recovered, raised, loopSig, cutShort, invoked>>

\* main(): managed_processes['ui'].start() unless prepare_only.
UiStart ==
    /\ pc = "ui_start"
    /\ proc' = IF prepare_only THEN proc ELSE start(proc, "ui")
    /\ idx' = 1
    /\ pc' = "prepare"
    /\ UNCHANGED <<params, params0, tagged, isPC, environ, BLOCK, prepare_only,
                   prepared, ignore, snap, started, iter, shutdown, seen,
                   atBreak, handler, sigterm, pending, loopExc, reported,
                   stopLog, cleanups, dread, actions, calls, lastCall, pubs,
                   lastMsg, reg_res, error, uiStops, exitStatus, faults,
                   recovered, raised, loopSig, cutShort, invoked>>

\* manager_prepare(): p.prepare() of the next process is called and returns.
Prepare ==
    /\ pc = "prepare"
    /\ idx <= Len(managed_processes)
    /\ invoked' = invoked \cup {managed_processes[idx]}
    /\ prepared' = prepared \cup {managed_processes[idx]}
    /\ idx' = idx + 1
    /\ UNCHANGED <<pc, params, params0, tagged, isPC, environ, BLOCK,
                   prepare_only, proc, ignore, snap, started, iter, shutdown,
                   seen, atBreak, handler, sigterm, pending, loopExc, reported,
                   stopLog, cleanups, dread, actions, calls, lastCall, pubs,
                   lastMsg, reg_res, error, uiStops, exitStatus, faults,
                   recovered, raised, loopSig, cutShort>>

\* main(): the ui start raises, or p.prepare() of the next process is called
\* and raises; nothing in manager_prepare() or main() catches it.
EarlyRaise ==
    /\ \/ pc = "ui_start" /\ ~prepare_only
       \/ pc = "prepare" /\ idx <= Len(managed_processes)
    /\ invoked' = IF pc = "prepare"
                     THEN invoked \cup {managed_processes[idx]} ELSE invoked
    /\ error' = <<"Exception">>
    /\ pc' = "outer_except"
    /\ UNCHANGED <<params, params0, tagged, isPC, environ, BLOCK, prepare_only,
                   proc, prepared, idx, ignore, snap, started, iter, shutdown,
                   seen, atBreak, handler, sigterm, pending, loopExc, reported,
                   stopLog, cleanups, dread, actions, calls, lastCall, pubs,
                   lastMsg, reg_res, uiStops, exitStatus, faults, recovered,
                   raised, loopSig, cutShort>>

\* main(): after manager_prepare(): return when prepare_only, else install
\* the SIGTERM handler and call manager_thread().
AfterPrepare ==
    /\ pc = "prepare"
    /\ idx > Len(managed_processes)
    /\ IF prepare_only
          THEN /\ pc' = "main_ret"
               /\ handler' = handler
          ELSE /\ pc' = "mt_ignore"
               /\ handler' = TRUE
    /\ UNCHANGED <<params, params0, tagged, isPC, environ, BLOCK, prepare_only,
                   proc, prepared, idx, ignore, snap, started, iter, shutdown,
                   seen, atBreak, sigterm, pending, loopExc, reported, stopLog,
                   cleanups, dread, actions, calls, lastCall, pubs, lastMsg,
                   reg_res, error, uiStops, exitStatus, faults, recovered,
                   raised, loopSig, cutShort, invoked>>

\* manager_thread(): the exclusion list is built.
MtIgnore ==
    /\ pc = "mt_ignore"
    /\ ignore' = ComputeIgnore(params, environ.NOBOARD, BLOCK)
    /\ snap' = [DongleId |-> get(params, "DongleId"),
                NOBOARD |-> environ.NOBOARD, BLOCK |-> BLOCK]
    /\ pc' = "mt_first"
    /\ UNCHANGED <<params, params0, tagged, isPC, environ, BLOCK, prepare_only,
                   proc, prepared, idx, started, iter, shutdown, seen, atBreak,
                   handler, sigterm, pending, loopExc, reported, stopLog,
                   cleanups, dread, actions, calls, lastCall, pubs, lastMsg,
                   reg_res, error, uiStops, exitStatus, faults, recovered,
                   raised, loopSig, cutShort, invoked>>

\* manager_thread(): ensure_running(..., False, ..., not_run=ignore) before
\* the loop.
MtFirst ==
    /\ pc = "mt_first"
    /\ proc' = ensure_running(proc, managed_processes, InitialStarted, ignore)
    /\ calls' = calls + 1
    /\ lastCall' = [started |-> InitialStarted, not_run |-> ignore]
    /\ pc' = "loop_wait"
    /\ UNCHANGED <<params, params0, tagged, isPC, environ, BLOCK, prepare_only,
                   prepared, idx, ignore, snap, started, iter, shutdown, seen,
                   atBreak, handler, sigterm, pending, loopExc, reported,
                   stopLog, cleanups, dread, actions, pubs, lastMsg, reg_res,
                   error, uiStops, exitStatus, faults, recovered, raised,
                   loopSig, cutShort, invoked>>

\* Loop: sm.update() returns and deviceState.started is read.
LoopWait ==
    /\ pc = "loop_wait"
    /\ iter < MaxIter
    /\ iter' = iter + 1
    /\ \E st \in BOOLEAN : started' = st
    /\ pc' = "loop_ensure"
    /\ UNCHANGED <<params, params0, tagged, isPC, environ, BLOCK, prepare_only,
                   proc, prepared, idx, ignore, snap, shutdown, seen, atBreak,
                   handler, sigterm, pending, loopExc, reported, stopLog,
                   cleanups, dread, actions, calls, lastCall, pubs, lastMsg,
                   reg_res, error, uiStops, exitStatus, faults, recovered,
                   raised, loopSig, cutShort, invoked>>

\* Loop: ensure_running(..., started, ..., not_run=ignore).
LoopEnsure ==
    /\ pc = "loop_ensure"
    /\ LET nr == NotRunArg(ignore, params, environ.NOBOARD, BLOCK)
       IN  /\ proc' = ensure_running(proc, managed_processes, started, nr)
           /\ lastCall' = [started |-> started, not_run |-> nr]
    /\ calls' = calls + 1
    /\ pc' = "loop_publish"
    /\ UNCHANGED <<params, params0, tagged, isPC, environ, BLOCK, prepare_only,
                   prepared, idx, ignore, snap, started, iter, shutdown, seen,
                   atBreak, handler, sigterm, pending, loopExc, reported,
                   stopLog, cleanups, dread, actions, pubs, lastMsg, reg_res,
                   error, uiStops, exitStatus, faults, recovered, raised,
                   loopSig, cutShort, invoked>>

\* Loop: the managerState message is built and sent; shutdown = False.
LoopPublish ==
    /\ pc = "loop_publish"
    /\ lastMsg' = ManagerStateMsg(proc)
    /\ pubs' = pubs + 1
    /\ shutdown' = FALSE
    /\ seen' = <<>>
    /\ idx' = 1
    /\ pc' = "loop_check"
    /\ UNCHANGED <<params, params0, tagged, isPC, environ, BLOCK, prepare_only,
                   proc, prepared, ignore, snap, started, iter, atBreak, handler,
                   sigterm, pending, loopExc, reported, stopLog, cleanups, dread,
                   actions, calls, lastCall, reg_res, error, uiStops, exitStatus,
                   faults, recovered, raised, loopSig, cutShort, invoked>>

\* Loop: one pass of 'for param in (DoUninstall, DoShutdown, DoReboot)'.
LoopCheck ==
    /\ pc = "loop_check"
    /\ idx <= Len(ShutdownParams)
    /\ LET param == ShutdownParams[idx]
       IN  IF get_bool(params, param)
              THEN /\ shutdown' = TRUE
                   /\ params' = put(params, "LastManagerExitReason", param)
                   /\ seen' = Append(seen, param)
              ELSE /\ shutdown' = shutdown
                   /\ params' = params
                   /\ seen' = seen
    /\ idx' = idx + 1
    /\ UNCHANGED <<pc, params0, tagged, isPC, environ, BLOCK, prepare_only, proc,
                   prepared, ignore, snap, started, iter, atBreak, handler,
                   sigterm, pending, loopExc, reported, stopLog, cleanups, dread,
                   actions, calls, lastCall, pubs, lastMsg, reg_res, error,
                   uiStops, exitStatus, faults, recovered, raised, loopSig,
                   cutShort, invoked>>

\* Loop: 'if shutdown: break'; leaving manager_thread() enters the finally
\* clause of main().
LoopEnd ==
    /\ pc = "loop_check"
    /\ idx > Len(ShutdownParams)
    /\ IF LoopBreaks(shutdown)
          THEN /\ pc' = "cl_nb"
               /\ idx' = 1
               /\ atBreak' = {k \in FlagKeys : get_bool(params, k)}
          ELSE /\ pc' = "loop_wait"
               /\ idx' = idx
               /\ atBreak' = atBreak
    /\ UNCHANGED <<params, params0, tagged, isPC, environ, BLOCK, prepare_only,
                   proc, prepared, ignore, snap, started, iter, shutdown, seen,
                   handler, sigterm, pending, loopExc, reported, stopLog,
                   cleanups, dread, actions, calls, lastCall, pubs, lastMsg,
                   reg_res, error, uiStops, exitStatus, faults, recovered,
                   raised, loopSig, cutShort, invoked>>

\* A call made by manager_thread() raises an Exception: main() catches it,
\* or it stays in flight through the finally clause.
ThreadRaise ==
    /\ pc \in ThreadPcs
    /\ loopExc' = TRUE
    /\ IF CaughtByMain("Exception")
          THEN /\ pc' = "mt_except"
               /\ pending' = pending
               /\ idx' = idx
          ELSE /\ pc' = "cl_nb"
               /\ pending' = "Exception"
               /\ idx' = 1
    /\ UNCHANGED <<params, params0, tagged, isPC, environ, BLOCK, prepare_only,
                   proc, prepared, ignore, snap, started, iter, shutdown, seen,
                   atBreak, handler, sigterm, reported, stopLog, cleanups, dread,
                   actions, calls, lastCall, pubs, lastMsg, reg_res, error,
                   uiStops, exitStatus, faults, recovered, raised, loopSig,
                   cutShort, invoked>>

\* main(): except Exception: traceback.print_exc(); sentry.capture_exception()
MtExcept ==
    /\ pc = "mt_except"
    /\ reported' = reported + 1
    /\ idx' = 1
    /\ pc' = "cl_nb"
    /\ UNCHANGED <<params, params0, tagged, isPC, environ, BLOCK, prepare_only,
                   proc, prepared, ignore, snap, started, iter, shutdown, seen,
                   atBreak, handler, sigterm, pending, loopExc, stopLog,
                   cleanups, dread, actions, calls, lastCall, pubs, lastMsg,
                   reg_res, error, uiStops, exitStatus, faults, recovered,
                   raised, loopSig, cutShort, invoked>>

\* manager_cleanup(): p.stop(block=False) for the next process.
CleanupSignal ==
    /\ pc = "cl_nb"
    /\ idx <= Len(CleanupSignalled)
    /\ proc' = stop(proc, CleanupSignalled[idx], FALSE)
    /\ stopLog' = Append(stopLog, <<CleanupSignalled[idx], FALSE>>)
    /\ IF idx = Len(CleanupSignalled)
          THEN pc' = "cl_b" /\ idx' = 1
          ELSE pc' = pc /\ idx' = idx + 1
    /\ UNCHANGED <<params, params0, tagged, isPC, environ, BLOCK, prepare_only,
                   prepared, ignore, snap, started, iter, shutdown, seen,
                   atBreak, handler, sigterm, pending, loopExc, reported,
                   cleanups, dread, actions, calls, lastCall, pubs, lastMsg,
                   reg_res, error, uiStops, exitStatus, faults, recovered,
                   raised, loopSig, cutShort, invoked>>

\* manager_cleanup(): p.stop(block=True) for the next process.
CleanupWait ==
    /\ pc = "cl_b"
    /\ idx <= Len(CleanupBlocking)
    /\ proc' = stop(proc, CleanupBlocking[idx], TRUE)
    /\ stopLog' = Append(stopLog, <<CleanupBlocking[idx], TRUE>>)
    /\ IF idx = Len(CleanupBlocking)
          THEN pc' = "cl_end" /\ idx' = 1
          ELSE pc' = pc /\ idx' = idx + 1
    /\ UNCHANGED <<params, params0, tagged, isPC, environ, BLOCK, prepare_only,
                   prepared, ignore, snap, started, iter, shutdown, seen,
                   atBreak, handler, sigterm, pending, loopExc, reported,
                   cleanups, dread, actions, calls, lastCall, pubs, lastMsg,
                   reg_res, error, uiStops, exitStatus, faults, recovered,
                   raised, loopSig, cutShort, invoked>>

\* manager_cleanup() returns; the finally clause ends: an exception in
\* flight leaves main(), otherwise the dispatch follows.
CleanupEnd ==
    /\ pc = "cl_end"
    /\ cleanups' = cleanups + 1
    /\ pending' = "none"
    /\ CASE pending = "SystemExit" ->
                /\ pc' = "exited"
                /\ exitStatus' = HandlerExitStatus
                /\ error' = error
         [] pending = "Exception" ->
                /\ pc' = "outer_except"
                /\ exitStatus' = exitStatus
                /\ error' = <<"Exception">>
         [] OTHER ->
                /\ pc' = "dispatch"
                /\ exitStatus' = exitStatus
                /\ error' = error
    /\ UNCHANGED <<params, params0, tagged, isPC, environ, BLOCK, prepare_only,
                   proc, prepared, idx, ignore, snap, started, iter, shutdown,
                   seen, atBreak, handler, sigterm, loopExc, reported, stopLog,
                   dread, actions, calls, lastCall, pubs, lastMsg, reg_res,
                   uiStops, faults, recovered, raised, loopSig, cutShort, invoked>>

\* main(): one test of the if / elif / elif chain; a flag found true
\* dispatches its HARDWARE call.
Dispatch ==
    /\ pc = "dispatch"
    /\ idx <= Len(DispatchParams)
    /\ LET flag == DispatchParams[idx]
           v == get_bool(params, flag)
       IN  /\ dread' = Append(dread, <<flag, v>>)
           /\ actions' = IF v THEN Append(actions, ActionOf(flag)) ELSE actions
           /\ idx' = DispatchNext(idx, v)
    /\ UNCHANGED <<pc, params, params0, tagged, isPC, environ, BLOCK,
                   prepare_only, proc, prepared, ignore, snap, started, iter,
                   shutdown, seen, atBreak, handler, sigterm, pending, loopExc,
                   reported, stopLog, cleanups, calls, lastCall, pubs, lastMsg,
                   reg_res, error, uiStops, exitStatus, faults, recovered,
                   raised, loopSig, cutShort, invoked>>

\* main() returns after the chain.
DispatchDone ==
    /\ pc = "dispatch"
    /\ idx > Len(DispatchParams)
    /\ pc' = "main_ret"
    /\ UNCHANGED <<params, params0, tagged, isPC, environ, BLOCK, prepare_only,
                   proc, prepared, idx, ignore, snap, started, iter, shutdown,
                   seen, atBreak, handler, sigterm, pending, loopExc, reported,
                   stopLog, cleanups, dread, actions, calls, lastCall, pubs,
                   lastMsg, reg_res, error, uiStops, exitStatus, faults,
                   recovered, raised, loopSig, cutShort, invoked>>

\* __main__: main() returned; sys.exit(0).
MainReturn ==
    /\ pc = "main_ret"
    /\ pc' = "exited"
    /\ exitStatus' = 0
    /\ UNCHANGED <<params, params0, tagged, isPC, environ, BLOCK, prepare_only,
                   proc, prepared, idx, ignore, snap, started, iter, shutdown,
                   seen, atBreak, handler, sigterm, pending, loopExc, reported,
                   stopLog, cleanups, dread, actions, calls, lastCall, pubs,
                   lastMsg, reg_res, error, uiStops, faults, recovered, raised,
                   loopSig, cutShort, invoked>>

\* __main__: except Exception: the ui process is asked to stop, an
\* Exception of that stop is passed over, the error is shown, and it is raised
\* again: the supervisor ends with an uncaught exception.
OuterExcept ==
    /\ pc = "outer_except"
    /\ uiStops' = uiStops + 1
    /\ \E failed \in BOOLEAN :
           /\ proc' = IF failed THEN proc ELSE stop(proc, "ui", TRUE)
           /\ raised' = IF failed /\ ~SwallowedByOuter("Exception")
                            THEN <<"Exception in ui stop">> ELSE error
    /\ pc' = "exited"
    /\ exitStatus' = 1
    /\ UNCHANGED <<params, params0, tagged, isPC, environ, BLOCK, prepare_only,
                   prepared, idx, ignore, snap, started, iter, shutdown, seen,
                   atBreak, handler, sigterm, pending, loopExc, reported,
                   stopLog, cleanups, dread, actions, calls, lastCall, pubs,
                   lastMsg, reg_res, error, faults, recovered, loopSig, cutShort,
                   invoked>>

\* SIGTERM with the handler installed: sys.exit(1) raises SystemExit where
\* the thread is. Inside the try of main() it is not an Exception, so the
\* finally clause runs with the exit in flight; anywhere later the
\* supervisor exits with status 1.
SigTerm ==
    /\ handler
    /\ pc # "exited"
    /\ sigterm' = TRUE
    /\ loopSig' = (loopSig \/ pc \in ThreadPcs)
    /\ cutShort' = (cutShort \/ pc \in {"cl_nb", "cl_b", "cl_end"})
    /\ CASE pc \in ThreadPcs /\ CaughtByMain("SystemExit") ->
                /\ pc' = "mt_except"
                /\ idx' = idx
                /\ pending' = pending
                /\ exitStatus' = exitStatus
         [] pc = "mt_except" \/ (pc \in ThreadPcs /\ ~CaughtByMain("SystemExit")) ->
                /\ pc' = "cl_nb"
                /\ idx' = 1
                /\ pending' = "SystemExit"
                /\ exitStatus' = exitStatus
         [] OTHER ->
                /\ pc' = "exited"
                /\ idx' = idx
                /\ pending' = pending
                /\ exitStatus' = HandlerExitStatus
    /\ UNCHANGED <<params, params0, tagged, isPC, environ, BLOCK, prepare_only,
                   proc, prepared, ignore, snap, started, iter, shutdown, seen,
                   atBreak, handler, loopExc, reported, stopLog, cleanups, dread,
                   actions, calls, lastCall, pubs, lastMsg, reg_res, error,
                   uiStops, faults, recovered, raised, invoked>>

\* Another process of the device sets a shutdown flag while the supervisor
\* is in manager_thread() or past it.
SetFlag(k) ==
    /\ handler
    /\ pc # "exited"
    /\ ~get_bool(params, k)
    /\ params' = put_bool(params, k, TRUE)
    /\ UNCHANGED <<pc, params0, tagged, isPC, environ, BLOCK, prepare_only, proc,
                   prepared, idx, ignore, snap, started, iter, shutdown, seen,
                   atBreak, handler, sigterm, pending, loopExc, reported,
                   stopLog, cleanups, dread, actions, calls, lastCall, pubs,
                   lastMsg, reg_res, error, uiStops, exitStatus, faults,
                   recovered, raised, loopSig, cutShort, invoked>>

\* A managed process that was sent a stop signal terminates.
ProcExit(p) ==
    /\ pc # "exited"
    /\ proc[p] = "stopping"
    /\ proc' = [proc EXCEPT ![p] = "dead"]
    /\ UNCHANGED <<pc, params, params0, tagged, isPC, environ, BLOCK,
                   prepare_only, prepared, idx, ignore, snap, started, iter,
                   shutdown, seen, atBreak, handler, sigterm, pending, loopExc,
                   reported, stopLog, cleanups, dread, actions, calls, lastCall,
                   pubs, lastMsg, reg_res, error, uiStops, exitStatus, faults,
                   recovered, raised, loopSig, cutShort, invoked>>

\* Another process writes DongleId while the supervisor is in its loop.
ChangeDongle ==
    /\ pc \in LoopPcs
    /\ \E d \in {NONE, "dongle1"} \ {get(params, "DongleId")} :
           params' = put(params, "DongleId", d)
    /\ UNCHANGED <<pc, params0, tagged, isPC, environ, BLOCK, prepare_only, proc,
                   prepared, idx, ignore, snap, started, iter, shutdown, seen,
                   atBreak, handler, sigterm, pending, loopExc, reported,
                   stopLog, cleanups, dread, actions, calls, lastCall, pubs,
                   lastMsg, reg_res, error, uiStops, exitStatus, faults,
                   recovered, raised, loopSig, cutShort, invoked>>

\* NOBOARD changes while the supervisor is in its loop.
ChangeNoboard ==
    /\ pc \in LoopPcs
    /\ \E v \in {NONE, "1"} \ {environ.NOBOARD} :
           environ' = [environ EXCEPT !.NOBOARD = v]
    /\ UNCHANGED <<pc, params, params0, tagged, isPC, BLOCK, prepare_only, proc,
                   prepared, idx, ignore, snap, started, iter, shutdown, seen,
                   atBreak, handler, sigterm, pending, loopExc, reported,
                   stopLog, cleanups, dread, actions, calls, lastCall, pubs,
                   lastMsg, reg_res, error, uiStops, exitStatus, faults,
                   recovered, raised, loopSig, cutShort, invoked>>

\* BLOCK changes while the supervisor is in its loop.
ChangeBlock ==
    /\ pc \in LoopPcs
    /\ \E b \in BlockValues \ {BLOCK} : BLOCK' = b
    /\ UNCHANGED <<pc, params, params0, tagged, isPC, environ, prepare_only,
                   proc, prepared, idx, ignore, snap, started, iter, shutdown,
                   seen, atBreak, handler, sigterm, pending, loopExc, reported,
                   stopLog, cleanups, dread, actions, calls, lastCall, pubs,
                   lastMsg, reg_res, error, uiStops, exitStatus, faults,
                   recovered, raised, loopSig, cutShort, invoked>>

\* ---------------------------------------------------------- specifications
\* The steps of the supervisor's own thread.
Startup ==
    \/ MainStart
    \/ InitSetTime
    \/ InitBootlog
    \/ InitClearAll
    \/ InitDefaults
    \/ InitPassive
    \/ InitShm
    \/ InitVersion
    \/ InitRegister
    \/ InitLogging
    \/ UiStart
    \/ Prepare
    \/ EarlyRaise
    \/ AfterPrepare
    \/ MainReturn
    \/ OuterExcept

Supervise ==
    \/ MtIgnore
    \/ MtFirst
    \/ LoopWait
    \/ LoopEnsure
    \/ LoopPublish
    \/ LoopCheck
    \/ LoopEnd
    \/ ThreadRaise
    \/ MtExcept
    \/ CleanupSignal
    \/ CleanupWait
    \/ CleanupEnd
    \/ Dispatch
    \/ DispatchDone

\* A full run, with the other processes of the device setting flags, the
\* managed processes terminating and SIGTERM arriving.
Next ==
    \/ Startup
    \/ Supervise
    \/ SigTerm
    \/ \E k \in FlagKeys : SetFlag(k)
    \/ \E p \in ProcNames : ProcExit(p)

Spec == Init /\ [][Next]_vars

\* A run in which DongleId, NOBOARD and BLOCK change during the loop.
NextEnv ==
    \/ Startup
    \/ Supervise
    \/ ChangeDongle
    \/ ChangeNoboard
    \/ ChangeBlock

SpecEnv == InitEnv /\ [][NextEnv]_vars

\* A run of the supervisor's own thread from every drawn store.
NextStartup ==
    \/ Startup
    \/ Supervise

SpecInit == InitStartup /\ [][NextStartup]_vars

\* A run of the supervisor's own thread under every combination of failing
\* best-effort steps.
SpecFaults == InitFaults /\ [][NextStartup]_vars


\* ------------------------------------------------------------- properties
\* The positions inside manager_init().
InitPcs == {"start", "init_time", "init_bootlog", "init_clear", "init_defaults",
            "init_passive", "init_shm", "init_version", "init_register",
            "init_logging"}

\* manager_init() has just returned to main().
InitReturned == pc = "ui_start"

\* main() has returned to __main__, or the supervisor has exited with status 0.
MainReturned == pc = "main_ret" \/ (pc = "exited" /\ exitStatus = 0)

\* The stop calls of one complete manager_cleanup(): a non-blocking stop of
\* every process, then a blocking stop of every process, in registry order.
FullStopLog ==
    [n \in 1..(2 * Len(managed_processes)) |->
        IF n <= Len(managed_processes)
           THEN <<managed_processes[n], FALSE>>
           ELSE <<managed_processes[n - Len(managed_processes)], TRUE>>]

\* manager_cleanup() has returned after its last blocking stop.
TeardownComplete ==
    /\ cleanups = 1
    /\ stopLog # <<>>
    /\ stopLog[Len(stopLog)] = <<managed_processes[Len(managed_processes)], TRUE>>

\* No managed process was started, no orchestration call and no publication
\* was made, and the thread is not and was never in manager_thread().
NothingStarted ==
    /\ \A p \in ProcNames : proc[p] = "none"
    /\ calls = 0
    /\ pubs = 0
    /\ iter = 0
    /\ ~handler
    /\ pc \in {"outer_except", "exited"}

\* The shutdown check of the loop read DoReboot true.
RebootDetected == InList("DoReboot", seen)

\* C1: in every run at most one system action (uninstall, reboot, shutdown)
\* is dispatched, and a dispatch happens only after manager_cleanup() has
\* finished its blocking stop of the last registered process.
C1_AtMostOneActionAfterTeardown ==
    /\ Len(actions) <= 1
    /\ actions # <<>> => TeardownComplete /\ stopLog = FullStopLog

\* C1, reached: one action was dispatched in a run where two flags are set.
C1_Witness ==
    /\ Len(actions) = 1
    /\ get_bool(params, "DoUninstall")
    /\ get_bool(params, "DoReboot")
    /\ pc = "exited"
    /\ exitStatus = 0

\* C2: once manager_cleanup() has returned, no registered process is alive,
\* whether the loop ended by a shutdown flag or by an exception.
C2_NoProcessAliveAfterCleanup ==
    cleanups >= 1 => \A p \in ProcNames : ~Alive(proc[p])

\* C2, reached: cleanup returned after an exception in the loop, and the
\* processes that were running have been stopped.
C2_Witness ==
    /\ cleanups = 1
    /\ loopExc
    /\ iter >= 1
    /\ proc["ui"] = "dead"
    /\ proc["pandad"] = "dead"

\* C3 as stated: once the loop has detected Reboot and broken with no other
\* flag set, the action dispatched is reboot, whatever is set afterwards.
C3_OnlyRebootAfterDetection ==
    (RebootDetected /\ atBreak = {"DoReboot"} /\ actions # <<>>) =>
        actions = <<"reboot">>

\* C3 as amended: once the loop has read DoReboot true, Reboot is the
\* persisted exit reason and the loop has stopped; a dispatch happens only
\* after teardown is complete; when main() returns, the action dispatched is
\* reboot, or uninstall if DoUninstall was set by the time the dispatch read
\* it; shutdown is never dispatched.
C3_RebootUnlessUninstall ==
    RebootDetected =>
        /\ shutdown
        /\ get(params, "LastManagerExitReason") = "DoReboot"
        /\ pc \notin {"loop_wait", "loop_ensure", "loop_publish"}
        /\ (actions # <<>> \/ MainReturned) => TeardownComplete
        /\ MainReturned => actions \in {<<"reboot">>, <<"uninstall">>}
        /\ \A n \in 1..Len(actions) : actions[n] \in {"reboot", "uninstall"}
        /\ actions = <<"uninstall">> => get_bool(params, "DoUninstall")
        /\ actions = <<"reboot">> =>
               dread = << <<"DoUninstall", FALSE>>, <<"DoReboot", TRUE>> >>

\* C3, reached: Reboot alone was detected, DoShutdown was set later, and
\* reboot was dispatched.
C3_Witness ==
    /\ atBreak = {"DoReboot"}
    /\ get_bool(params, "DoShutdown")
    /\ actions = <<"reboot">>
    /\ pc = "exited"

\* C4: when the shutdown check of an iteration is over and found a flag, the
\* persisted exit reason is the first flag it read true, and it was written
\* once in that iteration.
C4_FirstFlagWrittenOnce ==
    (pc = "loop_check" /\ idx > Len(ShutdownParams) /\ shutdown) =>
        /\ get(params, "LastManagerExitReason") = seen[1]
        /\ Len(seen) = 1

\* C5: every managerState message holds one entry per registered process, in
\* registry order, and every iteration that reaches its shutdown check has
\* sent exactly one message.
C5_OneCompleteMessagePerIteration ==
    /\ pubs > 0 =>
           /\ Len(lastMsg) = Len(managed_processes)
           /\ \A n \in 1..Len(lastMsg) : lastMsg[n].name = managed_processes[n]
    /\ pc \in {"loop_check", "loop_wait"} => pubs = iter
    /\ pubs \in {iter, iter - 1}

\* C5, reached: the iteration that detects a flag has published, with a
\* process in the registry that was never started.
C5_Witness ==
    /\ pc = "loop_check"
    /\ idx > Len(ShutdownParams)
    /\ shutdown
    /\ pubs = iter
    /\ iter = MaxIter
    /\ \E p \in ProcNames : proc[p] = "none"

\* C6: every ensure_running call gets the exclusion list that was built
\* once before the first call, from DongleId, NOBOARD and BLOCK as they were
\* then; with NOBOARD set at that time, pandad is in the list of every call.
C6_ExclusionListFixed ==
    calls > 0 =>
        /\ lastCall.not_run = ComputeIgnore(snap, snap.NOBOARD, snap.BLOCK)
        /\ lastCall.not_run = ignore
        /\ snap.NOBOARD # NONE => InList("pandad", lastCall.not_run)

\* C6, reached: a call with started = true after NOBOARD was unset and
\* DongleId and BLOCK were changed.
C6_Witness ==
    /\ calls >= 2
    /\ lastCall.started
    /\ snap.NOBOARD # NONE
    /\ environ.NOBOARD = NONE
    /\ get(params, "DongleId") # snap.DongleId
    /\ BLOCK # snap.BLOCK
    /\ pc = "loop_publish"

\* The default table in use.
TableInUse == DefaultTable(isPC)

\* Every key of the table that was unset before manager_init() holds its
\* table value (no key occurs twice in the table).
UnsetKeysDefaulted ==
    \A n \in 1..Len(TableInUse) :
        params0[TableInUse[n][1]] = NONE =>
            params[TableInUse[n][1]] = TableInUse[n][2]

\* The keys manager_init() clears or writes whatever they held.
Overwritten ==
    tagged \cup VersionKeys
    \cup (IF environ.PASSIVE # NONE THEN {"Passive"} ELSE {})
    \cup (IF get_bool(params0, "RecordFrontLock") /\ "RecordFrontLock" \notin tagged
             THEN {"RecordFront"} ELSE {})

\* C7 as stated: when manager_init() returns, every unset key of the table holds its
\* table value and every key that was set still holds its value.
C7_EverySetKeyKept ==
    InitReturned =>
        /\ UnsetKeysDefaulted
        /\ \A k \in ParamKeys : params0[k] # NONE => params[k] = params0[k]

\* C7 as amended: when manager_init() returns, every unset key of the table holds
\* its table value, and every key that was set still holds its value unless
\* it is a key initialization clears (tagged CLEAR_ON_MANAGER_START) or
\* writes unconditionally (the version keys, Passive under a PASSIVE
\* override, RecordFront under RecordFrontLock).
C7_SetKeysKeptUnlessOverwritten ==
    InitReturned =>
        /\ UnsetKeysDefaulted
        /\ \A k \in ParamKeys \ Overwritten :
               params0[k] # NONE => params[k] = params0[k]

\* C7, reached: initialization is over, a table key set before kept its
\* value, an unset one got its default, and Version was replaced.
C7_Witness ==
    /\ InitReturned
    /\ params0["AccMadsCombo"] = "0"
    /\ params["AccMadsCombo"] = "0"
    /\ params0["CarModel"] = NONE
    /\ params["CarModel"] = ""
    /\ params0["LastUpdateTime"] = "t0"
    /\ params0["Version"] = "old"
    /\ params["Version"] = "<get_version>"

\* The thread is past the Passive step of manager_init().
PastPassive ==
    pc \notin {"start", "init_time", "init_bootlog", "init_clear",
               "init_defaults", "init_passive"}

PassiveError == error = <<"Passive must be set to continue">>

\* C8: past the Passive step, a PASSIVE override is what Passive holds; with
\* no override a persisted Passive is kept; with neither, manager_init() has
\* raised and nothing was started and the loop was not entered.
C8_PassiveResolution ==
    PastPassive =>
        /\ environ.PASSIVE # NONE =>
               /\ get(params, "Passive") =
                      (IF BoolOfInt(environ.PASSIVE) THEN "1" ELSE "0")
               /\ ~PassiveError
        /\ (environ.PASSIVE = NONE /\ params0["Passive"] # NONE) =>
               /\ get(params, "Passive") = params0["Passive"]
               /\ ~PassiveError
        /\ (environ.PASSIVE = NONE /\ params0["Passive"] = NONE) =>
               /\ PassiveError
               /\ NothingStarted

\* C8, reached: neither an override nor a persisted Passive, and the
\* supervisor has exited with the failure.
C8_Witness ==
    /\ environ.PASSIVE = NONE
    /\ params0["Passive"] = NONE
    /\ PassiveError
    /\ pc = "exited"
    /\ exitStatus = 1

\* The thread is past the registration step of manager_init().
PastRegister == pc \notin InitPcs \/ pc = "init_logging"

\* C9: if register() gave no identifier, manager_init() has raised with the
\* HardwareSerial value, DONGLE_ID is not exported, nothing was started and
\* the loop was not entered; a started process implies DONGLE_ID holds the
\* identifier.
C9_RegistrationGate ==
    /\ (PastRegister /\ ~PassiveError /\ reg_res = NONE) =>
           /\ error = <<"Registration failed for device",
                        get(params, "HardwareSerial")>>
           /\ environ.DONGLE_ID = NONE
           /\ NothingStarted
    /\ (\E p \in ProcNames : proc[p] # "none") =>
           /\ reg_res # NONE
           /\ environ.DONGLE_ID = reg_res

\* C9, reached: registration failed on a device with a serial number.
C9_Witness ==
    /\ reg_res = NONE
    /\ error = <<"Registration failed for device", "serial1">>
    /\ pc = "exited"
    /\ exitStatus = 1

\* What the if / elif / elif chain dispatches for the values it has read.
DispatchedFor(reads) ==
    LET hits == {n \in 1..Len(reads) : reads[n][2]}
    IN  IF hits = {} THEN <<>> ELSE <<ActionOf(reads[Min(hits)][1])>>

\* C10: after an Exception inside manager_thread() (and no SIGTERM), the
\* exception was caught and reported, control passes only through the
\* handler, manager_cleanup() and the dispatch; the dispatch starts after
\* teardown is complete, reads the flags again and takes the action of the
\* flag it finds set.
C10_LoopExceptionThenTeardownAndDispatch ==
    (loopExc /\ ~sigterm) =>
        /\ pc \in {"mt_except", "cl_nb", "cl_b", "cl_end", "dispatch",
                   "main_ret", "exited"}
        /\ pc # "mt_except" => reported = 1
        /\ pc \in {"dispatch", "main_ret", "exited"} =>
               TeardownComplete /\ stopLog = FullStopLog
        /\ pc \in {"main_ret", "exited"} =>
               /\ exitStatus \in {-1, 0}
               /\ dread # <<>>
               /\ dread[1][1] = "DoUninstall"
               /\ actions = DispatchedFor(dread)
               /\ actions = <<>> => Len(dread) = Len(DispatchParams)
               /\ \A n \in 1..Len(dread) : dread[n][2] => get_bool(params, dread[n][1])

\* C10, reached: an exception in the second iteration, then teardown, then
\* the shutdown action of a flag set meanwhile.
C10_Witness ==
    /\ loopExc
    /\ ~sigterm
    /\ ~shutdown
    /\ iter = MaxIter
    /\ actions = <<"shutdown">>
    /\ pc = "exited"

\* main() was left by an Exception raised before the SIGTERM handler was
\* installed: by manager_init(), by the early ui start or by manager_prepare().
EarlyFailed == error # <<>> /\ ~handler

\* C11: after a failure before the control loop starts, no system action is
\* dispatched and no shutdown flag is read for dispatch, even with a flag
\* set; the loop is never entered (no orchestration call, no publication);
\* the ui process is asked to stop exactly once, whether or not that stop
\* fails; and the exception raised again is the original one, so that the
\* supervisor exits with a non-zero status.
C11_EarlyFailureIsFatal ==
    EarlyFailed =>
        /\ pc \in {"outer_except", "exited"}
        /\ actions = <<>>
        /\ dread = <<>>
        /\ calls = 0
        /\ pubs = 0
        /\ iter = 0
        /\ pc = "outer_except" => uiStops = 0 /\ raised = <<>>
        /\ pc = "exited" =>
               /\ uiStops = 1
               /\ raised = error
               /\ exitStatus # 0

\* C11, reached: a prepare() raised with DoReboot set and the ui running,
\* the stop of the ui failed, and the original exception was raised again.
C11_Witness ==
    /\ EarlyFailed
    /\ error = <<"Exception">>
    /\ get_bool(params, "DoReboot")
    /\ prepared # {}
    /\ proc["ui"] = "alive"
    /\ uiStops = 1
    /\ raised = error
    /\ pc = "exited"
    /\ exitStatus = 1

\* Every registered process has received a blocking stop from
\* manager_cleanup().
AllStoppedBlocking ==
    \A p \in ProcNames : \E n \in 1..Len(stopLog) : stopLog[n] = <<p, TRUE>>

\* C12: when the supervisor has exited in a run in which a SIGTERM reached
\* the installed handler, every registered process has received a blocking
\* stop.
C12_SigtermThenFullTeardown ==
    (sigterm /\ pc = "exited") => AllStoppedBlocking

\* C13: with PREPAREONLY set the supervisor never leaves the part of main()
\* before the handler is installed: no orchestration call, no publication,
\* no loop iteration, no process started (the ui included), no stop call of
\* manager_cleanup(), no flag read for dispatch and no system action; and
\* when nothing failed, main() has returned with every process prepared and
\* the exit status is 0.
C13_PrepareOnlyReturnsEarly ==
    environ.PREPAREONLY # NONE =>
        /\ pc \in InitPcs \cup {"ui_start", "prepare", "main_ret",
                                "outer_except", "exited"}
        /\ ~handler
        /\ calls = 0
        /\ pubs = 0
        /\ iter = 0
        /\ \A p \in ProcNames : proc[p] = "none"
        /\ stopLog = <<>>
        /\ cleanups = 0
        /\ dread = <<>>
        /\ actions = <<>>
        /\ (pc \in {"main_ret", "exited"} /\ error = <<>>) =>
               /\ prepared = ProcNames
               /\ exitStatus \in {-1, 0}

\* C13, reached: a prepare-only run ended with status 0 after preparing
\* every process, with DoReboot set in the store.
C13_Witness ==
    /\ environ.PREPAREONLY # NONE
    /\ get_bool(params, "DoReboot")
    /\ prepared = ProcNames
    /\ error = <<>>
    /\ pc = "exited"
    /\ exitStatus = 0

\* The stop calls made so far are the first calls of one complete
\* manager_cleanup().
StopLogInOrder ==
    /\ Len(stopLog) <= Len(FullStopLog)
    /\ \A n \in 1..Len(stopLog) : stopLog[n] = FullStopLog[n]

\* C14: the stop calls of manager_cleanup() are always a beginning of: one
\* non-blocking stop per registered process in registry order, then one
\* blocking stop per registered process in registry order. The blocking
\* phase begins with every non-blocking stop made, and a manager_cleanup()
\* that has returned has made exactly these calls, once.
C14_TwoPhaseTeardown ==
    /\ StopLogInOrder
    /\ cleanups <= 1
    /\ pc = "cl_nb" => Len(stopLog) = idx - 1
    /\ pc = "cl_b" => Len(stopLog) = Len(managed_processes) + idx - 1
    /\ cleanups = 1 => stopLog = FullStopLog

\* C14, reached: in the blocking phase the first process has been waited
\* for while the second, already signalled, is still terminating.
C14_Witness ==
    /\ pc = "cl_b"
    /\ idx = 2
    /\ Len(stopLog) = Len(managed_processes) + 1
    /\ proc[managed_processes[1]] = "dead"
    /\ proc[managed_processes[2]] = "stopping"

\* Where the thread is in iteration iter of the loop, counted in
\* orchestration calls (one was made before the loop) and publications.
LoopStepOrder ==
    /\ pc = "loop_wait" => calls = iter + 1 /\ pubs = iter
    /\ pc = "loop_ensure" => calls = iter /\ pubs = iter - 1
    /\ pc = "loop_publish" => calls = iter + 1 /\ pubs = iter - 1
    /\ pc = "loop_check" => calls = iter + 1 /\ pubs = iter

\* Once the shutdown check has found a flag, no snapshot is waited for, no
\* orchestration call is made and nothing is published.
NoWorkAfterFlag ==
    shutdown => iter' = iter /\ calls' = calls /\ pubs' = pubs

\* C15: in every iteration the wait for a snapshot comes first, then the
\* orchestration call, then the publication, then the shutdown check; and
\* from the moment a shutdown check has found a flag true there is no
\* further orchestration call and no further publication in the run.
C15_IterationOrderAndStop ==
    [](LoopStepOrder) /\ [][NoWorkAfterFlag]_vars

\* C15, reached: the check of the last iteration found a flag after the
\* earlier iterations found none, and the run ended.
C15_Witness ==
    /\ shutdown
    /\ seen # <<>>
    /\ iter = MaxIter
    /\ calls = MaxIter + 1
    /\ pubs = MaxIter
    /\ pc = "exited"
    /\ exitStatus = 0

\* C16: while no loop iteration has begun, at most one orchestration call
\* has been made and nothing has been published; that call was made with
\* started = false and the exclusion list; the loop is reached with exactly
\* that one call made; and deviceState is first read (an iteration begins)
\* only after it.
C16_FirstCallNotStarted ==
    /\ iter = 0 => calls <= 1 /\ pubs = 0
    /\ calls = 0 => iter = 0 /\ pubs = 0 /\ lastCall = NoCall
    /\ (iter = 0 /\ calls = 1) =>
           lastCall = [started |-> FALSE, not_run |-> ignore]
    /\ (pc = "loop_wait" /\ iter = 0) => calls = 1

\* C16, reached: the loop is about to begin its first iteration after the
\* one call, with the ui running.
C16_Witness ==
    /\ pc = "loop_wait"
    /\ iter = 0
    /\ calls = 1
    /\ pubs = 0
    /\ lastCall.started = FALSE
    /\ Alive(proc["ui"])

\* C17: once the preparation phase has begun and the thread has left it,
\* prepare() has been called on every registered process, whether or not a
\* prepare() raised; and outside prepare-only mode the phase begins only
\* with the ui process started.
C17_PrepareReachesEveryProcess ==
    /\ (invoked # {} /\ pc # "prepare") => invoked = ProcNames
    /\ (invoked # {} /\ ~prepare_only) => proc["ui"] # "none"

\* The positions of manager_init() up to and including the creation of
\* /dev/shm.
UpToShm == {"start", "init_time", "init_bootlog", "init_clear",
            "init_defaults", "init_passive", "init_shm"}

\* The version keys hold what manager_init() writes to them.
VersionWritten ==
    \A n \in 1..Len(version_params) :
        params[version_params[n][1]] = version_params[n][2]

FlagsNow == {k \in FlagKeys : get_bool(params, k)}

\* The flags the last shutdown check of the loop read true.
SeenSet == {seen[n] : n \in 1..Len(seen)}

\* C19: when the loop broke on its shutdown check, and the flags set when
\* main() returns are exactly those the check read true (flags are only ever
\* set, so none changed in between), the one system action dispatched is
\* the action of the flag LastManagerExitReason names.
C19_DispatchMatchesExitReason ==
    (pc = "main_ret" /\ shutdown /\ ~loopExc /\ SeenSet = FlagsNow) =>
        actions = <<ActionOf(get(params, "LastManagerExitReason"))>>

\* C20: after a SIGTERM that arrived while the thread was in
\* manager_thread(), control passes only through manager_cleanup() to the
\* exit: no flag is read for dispatch and no system action is dispatched,
\* whatever flags are set; the exit status is not 0; and unless a further
\* SIGTERM arrived during manager_cleanup(), the supervisor exits with the
\* teardown complete.
C20_SigtermInLoopSkipsDispatch ==
    loopSig =>
        /\ pc \in {"cl_nb", "cl_b", "cl_end", "exited"}
        /\ dread = <<>>
        /\ actions = <<>>
        /\ pc = "exited" =>
               /\ exitStatus # 0
               /\ ~cutShort => TeardownComplete /\ stopLog = FullStopLog

\* C20, reached: with a shutdown flag set, a SIGTERM ended an iteration of
\* the loop, the teardown ran to its end, nothing was dispatched and the
\* exit status is 1.
C20_Witness ==
    /\ loopSig
    /\ ~cutShort
    /\ iter >= 1
    /\ FlagsNow # {}
    /\ TeardownComplete
    /\ actions = <<>>
    /\ pc = "exited"
    /\ exitStatus = 1

====
